---- MODULE Spec2Model ----
(***************************************************************************)
(* Model of FWidgetManager (Source/EasySynth/Private/Widgets/              *)
(* WidgetManager.cpp): the batch-sequencing state machine driven by the    *)
(* Render Images button and the renderer's OnRenderingFinished callback,   *)
(* and the option bookkeeping between the widget members and the persisted *)
(* UWidgetStateAsset.                                                      *)
(*                                                                         *)
(* Every handler is one atomic action: Slate delivers UI events and the    *)
(* renderer's delegate on the game thread, one at a time.                  *)
(***************************************************************************)
EXTENDS Integers, Sequences, FiniteSets, TLC

\* ---------------------------------------------------------------- bounds
\* Largest number of assets the asset registry reports for a folder.
MaxAssets == 2
\* Largest number of option-change events delivered in one run.
MaxOptionChanges == 3

\* ------------------------------------------------------------ input sets
\* Directories the sequences-folder picker can deliver.  "" is the cleared
\* picker, "C:/Temp" lies outside the project content, the last one is a
\* content folder.
SequenceFolders == {"", "C:/Temp", "Content/Sequences"}
\* Directories the output-directory picker can deliver.
OutputDirectories == {"DefaultRenderingOutputPath", "D:/Renders"}
\* Values the width / height spin boxes can deliver.
WidthInputs == {641, 1920}
HeightInputs == {481, 1080}
\* Values the depth-range and optical-flow-scale spin boxes can deliver.
DepthRangeInputs == {100, 250}
OpticalFlowScaleInputs == {1, 10}
\* Asset classes found by the asset registry.
AssetClasses == {"LevelSequence", "Material"}
\* Materials the custom PP material picker can deliver (0 is the cleared,
\* invalid FAssetData).
MaterialAssets == {0, 7}
\* The target check boxes and the format combo boxes that are operated; the
\* other targets keep the selection and format they were constructed or
\* loaded with.
ToggledTargets == {"COLOR_IMAGE", "SEMANTIC_IMAGE"}
FormatTargets == {"DEPTH_IMAGE", "CUSTOM_PP_MATERIAL"}

\* FRendererTargetOptions::TargetType
ImageTargets ==
    {"COLOR_IMAGE", "DEPTH_IMAGE", "NORMAL_IMAGE", "OPTICAL_FLOW_IMAGE", "SEMANTIC_IMAGE"}
TargetTypes == ImageTargets \cup {"CUSTOM_PP_MATERIAL"}

\* Content of the output image format combo box.
JpegFormatName == "jpeg"
PngFormatName == "png"
ExrFormatName == "exr"
OutputFormatNames == {JpegFormatName, PngFormatName, ExrFormatName}

DefaultOutputImageResolution == [X |-> 1920, Y |-> 1080]

\* The asset has never been saved: LoadObject returns nullptr.
NoAsset == [exists |-> FALSE]

VARIABLES
    SelectedSequencesFolder,   \* FString
    SequenceRendererTargets,   \* FRendererTargetOptions
    OutputImageResolution,     \* FIntPoint
    OutputDirectory,           \* FString
    BaseOutputDirectory,       \* FString
    SequencesToRender,         \* TArray<FAssetData>, here the asset names
    CurrentSequenceIndex,      \* int32
    WidgetStateAsset,          \* the persisted UWidgetStateAsset, or NoAsset
    bCurrentlyRendering,       \* USequenceRenderer::IsRendering()
    log,                       \* history: events since the last click
    discovered,                \* history: SequencesToRender as found by the last click
    savedOptions,              \* history: the widget options at the last save
    click,                     \* history: the folder and the registry's answer at the last click
    loaded,                    \* history: what the last handler, if it was a load, did
    optionChanges              \* number of option-change events so far

vars == <<SelectedSequencesFolder, SequenceRendererTargets, OutputImageResolution,
          OutputDirectory, BaseOutputDirectory, SequencesToRender, CurrentSequenceIndex,
          WidgetStateAsset, bCurrentlyRendering, log, discovered, savedOptions,
          click, loaded, optionChanges>>

batchVars == <<BaseOutputDirectory, SequencesToRender, CurrentSequenceIndex,
               bCurrentlyRendering, log, discovered, click>>

\* --------------------------------------------------------------- history
Event(ev, idx, arg, title, dir, flag, busy) ==
    [ev |-> ev, idx |-> idx, arg |-> arg, title |-> title, dir |-> dir,
     flag |-> flag, busy |-> busy]

NoDir == <<"", "">>
DialogEvent(title, arg) == Event("Dialog", -1, arg, title, NoDir, FALSE, FALSE)

\* ------------------------------------------------------------ conversions
\* static_cast<int8>(EImageFormat): the engine's enumerators, kept in 8 bits.
ToInt8(v) == ((v + 128) % 256) - 128
ImageFormatToInt8(f) ==
    ToInt8(CASE f = "PNG" -> 0 [] f = "JPEG" -> 1 [] f = "EXR" -> 5 [] OTHER -> -1)
\* static_cast<EImageFormat>(int8)
Int8ToImageFormat(v) ==
    CASE v = 0 -> "PNG" [] v = 1 -> "JPEG" [] v = 5 -> "EXR" [] OTHER -> "Invalid"

\* FAssetData::ToSoftObjectPath: an invalid asset gives the empty path.
ToSoftObjectPath(assetData) == IF assetData = 0 THEN "" ELSE "Material_7"
\* FSoftObjectPath::TryLoad: the object at the path, or nullptr (invalid data).
TryLoad(path) == IF path = "Material_7" THEN 7 ELSE 0

\* FPackageName::TryConvertFilenameToLongPackageName succeeds for directories
\* under a mounted content root only.
TryConvertFilenameToLongPackageName(dir) == dir = "Content/Sequences"

\* The spin box lambdas round the value down to an even number.
EvenValue(NewValue) == (NewValue \div 2) * 2

\* --------------------------------------------------- FRendererTargetOptions
DefaultRendererTargetOptions ==
    [ExportCameraPoses |-> FALSE,
     SelectedTargets   |-> [t \in ImageTargets |-> FALSE],
     OutputFormats     |-> [t \in TargetTypes |-> "JPEG"],
     CustomPPMaterial  |-> 0,
     DepthRangeMeters  |-> 100,
     OpticalFlowScale  |-> 1]

AnyOptionSelected(targets) ==
    targets.ExportCameraPoses \/ \E t \in ImageTargets : targets.SelectedTargets[t]

\* The asset lists the registry can report for a folder: asset i of the list
\* has class list[i] and the asset name AssetName(i).
AssetLists == UNION {[1..n -> AssetClasses] : n \in 0..MaxAssets}
AssetName(i) == ToString(i)

\* Mutant: the class filter is dropped, every asset of the folder is queued.
FilterLevelSequences_AllAssets(AssetDataList) ==
    [i \in 1..Len(AssetDataList) |-> AssetName(i)]

FilterLevelSequences(AssetDataList) ==
    LET RECURSIVE Filter(_)
        Filter(i) ==
            IF i > Len(AssetDataList) THEN <<>>
            ELSE IF AssetDataList[i] = "LevelSequence"
                 THEN <<AssetName(i)>> \o Filter(i + 1)
                 ELSE Filter(i + 1)
    IN  Filter(1)

\* ------------------------------------------------------------------ Init
OptionsSnapshot(targets, resolution, directory) ==
    [targets |-> targets, resolution |-> resolution, directory |-> directory]

Init ==
    /\ SelectedSequencesFolder = ""
    /\ SequenceRendererTargets = DefaultRendererTargetOptions
    /\ OutputImageResolution = DefaultOutputImageResolution
    /\ OutputDirectory = "DefaultRenderingOutputPath"
    /\ BaseOutputDirectory = ""
    /\ SequencesToRender = <<>>
    /\ CurrentSequenceIndex = -1
    /\ WidgetStateAsset = NoAsset
    /\ bCurrentlyRendering = FALSE
    /\ log = <<>>
    /\ discovered = <<>>
    /\ savedOptions = OptionsSnapshot(DefaultRendererTargetOptions,
                                    DefaultOutputImageResolution,
                                    "DefaultRenderingOutputPath")
    /\ click = [folder |-> "", assets |-> <<>>]
    /\ loaded = "no"
    /\ optionChanges = 0

\* ------------------------------------------------------- option handlers
OptionChange ==
    /\ optionChanges < MaxOptionChanges
    /\ optionChanges' = optionChanges + 1
    /\ loaded' = "no"
    /\ UNCHANGED <<batchVars, WidgetStateAsset, savedOptions>>

OnSequencesFolderChanged ==
    \E Directory \in SequenceFolders :
        /\ SelectedSequencesFolder' = Directory
        /\ OptionChange
        /\ UNCHANGED <<SequenceRendererTargets, OutputImageResolution, OutputDirectory>>

OnOutputDirectoryChanged ==
    \E Directory \in OutputDirectories :
        /\ OutputDirectory' = Directory
        /\ OptionChange
        /\ UNCHANGED <<SequenceRendererTargets, OutputImageResolution, SelectedSequencesFolder>>

OnExportCameraPosesChanged ==
    \E bChecked \in BOOLEAN :
        /\ SequenceRendererTargets' =
               [SequenceRendererTargets EXCEPT !.ExportCameraPoses = bChecked]
        /\ OptionChange
        /\ UNCHANGED <<SelectedSequencesFolder, OutputImageResolution, OutputDirectory>>

OnRenderTargetsChanged ==
    \E TargetType \in ToggledTargets, bChecked \in BOOLEAN :
        /\ SequenceRendererTargets' =
               [SequenceRendererTargets EXCEPT !.SelectedTargets[TargetType] = bChecked]
        /\ OptionChange
        /\ UNCHANGED <<SelectedSequencesFolder, OutputImageResolution, OutputDirectory>>

SelectedFormat(StringItem, current) ==
    IF StringItem = JpegFormatName THEN "JPEG"
    ELSE IF StringItem = PngFormatName THEN "PNG"
    ELSE IF StringItem = ExrFormatName THEN "EXR"
    ELSE current

OnOutputFormatSelectionChanged ==
    \E TargetType \in FormatTargets, StringItem \in OutputFormatNames :
        /\ SequenceRendererTargets' =
               [SequenceRendererTargets EXCEPT
                   !.OutputFormats[TargetType] = SelectedFormat(StringItem, @)]
        /\ OptionChange
        /\ UNCHANGED <<SelectedSequencesFolder, OutputImageResolution, OutputDirectory>>

OnCustomPPMaterialSelected ==
    \E AssetData \in MaterialAssets :
        /\ SequenceRendererTargets' =
               [SequenceRendererTargets EXCEPT !.CustomPPMaterial = AssetData]
        /\ OptionChange
        /\ UNCHANGED <<SelectedSequencesFolder, OutputImageResolution, OutputDirectory>>

OnOutputWidthChanged ==
    \E NewValue \in WidthInputs :
        /\ OutputImageResolution' = [OutputImageResolution EXCEPT !.X = EvenValue(NewValue)]
        /\ OptionChange
        /\ UNCHANGED <<SelectedSequencesFolder, SequenceRendererTargets, OutputDirectory>>

OnOutputHeightChanged ==
    \E NewValue \in HeightInputs :
        /\ OutputImageResolution' = [OutputImageResolution EXCEPT !.Y = EvenValue(NewValue)]
        /\ OptionChange
        /\ UNCHANGED <<SelectedSequencesFolder, SequenceRendererTargets, OutputDirectory>>

OnDepthRangeChanged ==
    \E NewValue \in DepthRangeInputs :
        /\ SequenceRendererTargets' =
               [SequenceRendererTargets EXCEPT !.DepthRangeMeters = NewValue]
        /\ OptionChange
        /\ UNCHANGED <<SelectedSequencesFolder, OutputImageResolution, OutputDirectory>>

OnOpticalFlowScaleChanged ==
    \E NewValue \in OpticalFlowScaleInputs :
        /\ SequenceRendererTargets' =
               [SequenceRendererTargets EXCEPT !.OpticalFlowScale = NewValue]
        /\ OptionChange
        /\ UNCHANGED <<SelectedSequencesFolder, OutputImageResolution, OutputDirectory>>

\* ------------------------------------------------------------ persistence
\* SaveWidgetOptionStates: the field values written into the asset.
SavedWidgetStateAsset(targets, resolution, directory) ==
    [exists |-> TRUE,
     LevelSequenceAssetPath         |-> "",
     bCameraPosesSelected           |-> targets.ExportCameraPoses,
     bColorImagesSelected           |-> targets.SelectedTargets["COLOR_IMAGE"],
     bDepthImagesSelected           |-> targets.SelectedTargets["DEPTH_IMAGE"],
     bNormalImagesSelected          |-> targets.SelectedTargets["NORMAL_IMAGE"],
     bOpticalFlowImagesSelected     |-> targets.SelectedTargets["OPTICAL_FLOW_IMAGE"],
     bSemanticImagesSelected        |-> targets.SelectedTargets["SEMANTIC_IMAGE"],
     bColorImagesOutputFormat       |-> ImageFormatToInt8(targets.OutputFormats["COLOR_IMAGE"]),
     bDepthImagesOutputFormat       |-> ImageFormatToInt8(targets.OutputFormats["DEPTH_IMAGE"]),
     bNormalImagesOutputFormat      |-> ImageFormatToInt8(targets.OutputFormats["NORMAL_IMAGE"]),
     bOpticalFlowImagesOutputFormat |->
         ImageFormatToInt8(targets.OutputFormats["OPTICAL_FLOW_IMAGE"]),
     bSemanticImagesOutputFormat    |->
         ImageFormatToInt8(targets.OutputFormats["SEMANTIC_IMAGE"]),
     CustomPPMaterialAssetPath      |-> ToSoftObjectPath(targets.CustomPPMaterial),
     bCustomPPMaterialOutputFormat  |->
         ImageFormatToInt8(targets.OutputFormats["CUSTOM_PP_MATERIAL"]),
     OutputImageResolution          |-> resolution,
     DepthRange                     |-> targets.DepthRangeMeters,
     OpticalFlowScale               |-> targets.OpticalFlowScale,
     OutputDirectory                |-> directory]

\* Mutant: the depth format is read from the color format field.
LoadedRendererTargets_CopyPaste(asset) ==
    [ExportCameraPoses |-> asset.bCameraPosesSelected,
     SelectedTargets   |->
         [t \in ImageTargets |->
             CASE t = "COLOR_IMAGE"        -> asset.bColorImagesSelected
               [] t = "DEPTH_IMAGE"        -> asset.bDepthImagesSelected
               [] t = "NORMAL_IMAGE"       -> asset.bNormalImagesSelected
               [] t = "OPTICAL_FLOW_IMAGE" -> asset.bOpticalFlowImagesSelected
               [] t = "SEMANTIC_IMAGE"     -> asset.bSemanticImagesSelected],
     OutputFormats     |->
         [t \in TargetTypes |->
             Int8ToImageFormat(
                 CASE t = "COLOR_IMAGE"        -> asset.bColorImagesOutputFormat
                   [] t = "DEPTH_IMAGE"        -> asset.bColorImagesOutputFormat
                   [] t = "NORMAL_IMAGE"       -> asset.bNormalImagesOutputFormat
                   [] t = "OPTICAL_FLOW_IMAGE" -> asset.bOpticalFlowImagesOutputFormat
                   [] t = "SEMANTIC_IMAGE"     -> asset.bSemanticImagesOutputFormat
                   [] t = "CUSTOM_PP_MATERIAL" -> asset.bCustomPPMaterialOutputFormat)],
     CustomPPMaterial  |-> TryLoad(asset.CustomPPMaterialAssetPath),
     DepthRangeMeters  |-> asset.DepthRange,
     OpticalFlowScale  |-> asset.OpticalFlowScale]

\* LoadWidgetOptionStates: the renderer target options read back from the asset.
LoadedRendererTargets(asset) ==
    [ExportCameraPoses |-> asset.bCameraPosesSelected,
     SelectedTargets   |->
         [t \in ImageTargets |->
             CASE t = "COLOR_IMAGE"        -> asset.bColorImagesSelected
               [] t = "DEPTH_IMAGE"        -> asset.bDepthImagesSelected
               [] t = "NORMAL_IMAGE"       -> asset.bNormalImagesSelected
               [] t = "OPTICAL_FLOW_IMAGE" -> asset.bOpticalFlowImagesSelected
               [] t = "SEMANTIC_IMAGE"     -> asset.bSemanticImagesSelected],
     OutputFormats     |->
         [t \in TargetTypes |->
             Int8ToImageFormat(
                 CASE t = "COLOR_IMAGE"        -> asset.bColorImagesOutputFormat
                   [] t = "DEPTH_IMAGE"        -> asset.bDepthImagesOutputFormat
                   [] t = "NORMAL_IMAGE"       -> asset.bNormalImagesOutputFormat
                   [] t = "OPTICAL_FLOW_IMAGE" -> asset.bOpticalFlowImagesOutputFormat
                   [] t = "SEMANTIC_IMAGE"     -> asset.bSemanticImagesOutputFormat
                   [] t = "CUSTOM_PP_MATERIAL" -> asset.bCustomPPMaterialOutputFormat)],
     CustomPPMaterial  |-> TryLoad(asset.CustomPPMaterialAssetPath),
     DepthRangeMeters  |-> asset.DepthRange,
     OpticalFlowScale  |-> asset.OpticalFlowScale]

CurrentOptions ==
    OptionsSnapshot(SequenceRendererTargets, OutputImageResolution, OutputDirectory)

LoadWidgetOptionStates ==
    IF WidgetStateAsset.exists
    THEN /\ SelectedSequencesFolder' = ""
         /\ SequenceRendererTargets' = LoadedRendererTargets(WidgetStateAsset)
         /\ OutputImageResolution' = WidgetStateAsset.OutputImageResolution
         /\ OutputDirectory' = WidgetStateAsset.OutputDirectory
    ELSE UNCHANGED <<SelectedSequencesFolder, SequenceRendererTargets,
                     OutputImageResolution, OutputDirectory>>

\* The tab is spawned (again): the saved option states are loaded.  Binding the
\* texture style manager's events and refreshing the semantic class names
\* touch none of the state modelled here.
OnSpawnPluginTab ==
    /\ LoadWidgetOptionStates
    /\ loaded' = IF ~WidgetStateAsset.exists THEN "no"
                  ELSE IF CurrentOptions = savedOptions THEN "unchanged"
                  ELSE "restored"
    /\ UNCHANGED <<batchVars, WidgetStateAsset, savedOptions, optionChanges>>

\* -------------------------------------------------------- batch rendering
IsRendering == bCurrentlyRendering

\* Mutant: the button does not look at the renderer.
GetIsRenderImagesEnabled_IgnoresRendering ==
    /\ SelectedSequencesFolder # ""
    /\ AnyOptionSelected(SequenceRendererTargets)

GetIsRenderImagesEnabled ==
    /\ SelectedSequencesFolder # ""
    /\ AnyOptionSelected(SequenceRendererTargets)
    /\ ~IsRendering

\* The batch state the handlers work on, as one value.
Batch(seqs, idx, rendering, events) ==
    [SequencesToRender |-> seqs, CurrentSequenceIndex |-> idx,
     bCurrentlyRendering |-> rendering, log |-> events]

Logged(b, e) == [b EXCEPT !.log = Append(@, e)]

\* Mutant: the index is reset but SequencesToRender is not emptied.
ResetBatch_KeepsSequences(b) == [b EXCEPT !.CurrentSequenceIndex = -1]

ResetBatch(b) == [b EXCEPT !.SequencesToRender = <<>>, !.CurrentSequenceIndex = -1]

\* USequenceRenderer::RenderSequence: the call is recorded with the state the
\* renderer was in; the renderer is rendering from a call that returns true.
RenderSequence(b, name, dir, bStarted) ==
    [Logged(b, Event("RenderSequence", b.CurrentSequenceIndex, name, "", dir,
                     bStarted, b.bCurrentlyRendering))
        EXCEPT !.bCurrentlyRendering = bStarted \/ @]

\* Mutant: the batch state is not reset when the render could not start.
RenderCurrentSequence_NoReset(b, base, bStarted) ==
    IF b.CurrentSequenceIndex < 0 \/ b.CurrentSequenceIndex >= Len(b.SequencesToRender)
    THEN b
    ELSE LET SequenceName == b.SequencesToRender[b.CurrentSequenceIndex + 1]
             SequenceOutputDir == <<base, SequenceName>>
             called == RenderSequence(b, SequenceName, SequenceOutputDir, bStarted)
         IN  IF ~bStarted
             THEN Logged(called, DialogEvent("Could not start rendering", ""))
             ELSE called

\* Mutant: the subfolder is made under OutputDirectory as it is at the call.
RenderCurrentSequence_CurrentDirectory(b, base, bStarted) ==
    IF b.CurrentSequenceIndex < 0 \/ b.CurrentSequenceIndex >= Len(b.SequencesToRender)
    THEN b
    ELSE LET SequenceName == b.SequencesToRender[b.CurrentSequenceIndex + 1]
             SequenceOutputDir == <<OutputDirectory, SequenceName>>
             called == RenderSequence(b, SequenceName, SequenceOutputDir, bStarted)
         IN  IF ~bStarted
             THEN ResetBatch(Logged(called, DialogEvent("Could not start rendering", "")))
             ELSE called

RenderCurrentSequence(b, base, bStarted) ==
    IF b.CurrentSequenceIndex < 0 \/ b.CurrentSequenceIndex >= Len(b.SequencesToRender)
    THEN b
    ELSE LET SequenceName == b.SequencesToRender[b.CurrentSequenceIndex + 1]
             SequenceOutputDir == <<base, SequenceName>>
             called == RenderSequence(b, SequenceName, SequenceOutputDir, bStarted)
         IN  IF ~bStarted
             THEN ResetBatch(Logged(called, DialogEvent("Could not start rendering", "")))
             ELSE called

OnRenderImagesClicked ==
    /\ GetIsRenderImagesEnabled
    /\ IF ~TryConvertFilenameToLongPackageName(SelectedSequencesFolder)
       THEN /\ SequencesToRender' = <<>>
            /\ CurrentSequenceIndex' = -1
            /\ log' = <<DialogEvent("Invalid Folder", "")>>
            /\ discovered' = <<>>
            /\ click' = [folder |-> SelectedSequencesFolder, assets |-> <<>>]
            /\ UNCHANGED <<BaseOutputDirectory, bCurrentlyRendering,
                           WidgetStateAsset, savedOptions>>
       ELSE \E AssetDataList \in AssetLists :
              LET found == FilterLevelSequences(AssetDataList)
              IN  /\ click' = [folder |-> SelectedSequencesFolder,
                               assets |-> AssetDataList]
                  /\ IF Len(found) = 0
                     THEN /\ SequencesToRender' = <<>>
                          /\ CurrentSequenceIndex' = -1
                          /\ log' = <<DialogEvent("No Sequences Found", "")>>
                          /\ discovered' = <<>>
                          /\ UNCHANGED <<BaseOutputDirectory, bCurrentlyRendering,
                                         WidgetStateAsset, savedOptions>>
                     ELSE \E bStarted \in BOOLEAN :
                            LET started ==
                                    RenderCurrentSequence(
                                        Batch(found, 0, bCurrentlyRendering, <<>>),
                                        OutputDirectory, bStarted)
                            IN  /\ BaseOutputDirectory' = OutputDirectory
                                /\ SequencesToRender' = started.SequencesToRender
                                /\ CurrentSequenceIndex' = started.CurrentSequenceIndex
                                /\ bCurrentlyRendering' = started.bCurrentlyRendering
                                /\ log' = started.log
                                /\ discovered' = found
                                /\ WidgetStateAsset' =
                                       SavedWidgetStateAsset(SequenceRendererTargets,
                                                             OutputImageResolution,
                                                             OutputDirectory)
                                /\ savedOptions' = CurrentOptions
    /\ loaded' = "no"
    /\ UNCHANGED <<SelectedSequencesFolder, SequenceRendererTargets,
                   OutputImageResolution, OutputDirectory, optionChanges>>

\* Mutant: the index is advanced twice.
NextSequenceIndex_Skips(i) == i + 2

NextSequenceIndex(i) == i + 1

\* Mutant: the comparison lets the index reach SequencesToRender.Num().
HasMoreSequences_OffByOne(b) == b.CurrentSequenceIndex <= Len(b.SequencesToRender)

HasMoreSequences(b) == b.CurrentSequenceIndex < Len(b.SequencesToRender)

\* Mutant: the count is read after SequencesToRender was emptied.
CompletedCount_AfterReset(b) == ToString(Len(ResetBatch(b).SequencesToRender))

\* The number the "Batch Rendering Complete" dialog reports.
CompletedCount(b) == ToString(Len(b.SequencesToRender))

\* Mutant: the name is looked up after the batch state was reset.
FailedSequenceName_AfterReset(b) ==
    LET r == ResetBatch(b)
    IN  IF r.CurrentSequenceIndex >= 0 /\ r.CurrentSequenceIndex < Len(r.SequencesToRender)
        THEN r.SequencesToRender[r.CurrentSequenceIndex + 1]
        ELSE "Unknown"

\* The name the "Rendering failed" dialog reports.
FailedSequenceName(b) ==
    IF b.CurrentSequenceIndex >= 0 /\ b.CurrentSequenceIndex < Len(b.SequencesToRender)
    THEN b.SequencesToRender[b.CurrentSequenceIndex + 1]
    ELSE "Unknown"

\* Mutant: the collection is not forced.
ForceGarbageCollection_Skipped(b) == b

\* GEngine->ForceGarbageCollection(true), recorded in the history; the one
\* second sleep that follows changes no state.
ForceGarbageCollection(b) ==
    Logged(b, Event("ForceGarbageCollection", b.CurrentSequenceIndex, "", "", NoDir,
                    FALSE, b.bCurrentlyRendering))

RenderingSucceeded(b, base, bStarted) ==
    IF b.CurrentSequenceIndex >= 0 /\ b.CurrentSequenceIndex < Len(b.SequencesToRender)
    THEN LET advanced ==
                 [b EXCEPT !.CurrentSequenceIndex = NextSequenceIndex(@)]
         IN  IF HasMoreSequences(advanced)
             THEN RenderCurrentSequence(ForceGarbageCollection(advanced), base, bStarted)
             ELSE ResetBatch(Logged(advanced,
                      DialogEvent("Batch Rendering Complete", CompletedCount(advanced))))
    ELSE Logged(b, DialogEvent("Successful rendering", ""))

\* Mutant: the batch state is reset without telling the user.
RenderingFailed_Silent(b) == ResetBatch(b)

RenderingFailed(b) ==
    ResetBatch(Logged(b, DialogEvent("Rendering failed", FailedSequenceName(b))))

\* The renderer broadcasts OnRenderingFinished for the render it was running,
\* and is no longer rendering when it does.
OnRenderingFinished ==
    /\ IsRendering
    /\ \E bSuccess \in BOOLEAN, bStarted \in BOOLEAN :
         LET delivered ==
                 Logged(Batch(SequencesToRender, CurrentSequenceIndex, FALSE, log),
                        Event("OnRenderingFinished", CurrentSequenceIndex, "", "", NoDir,
                              bSuccess, FALSE))
             after == IF bSuccess
                      THEN RenderingSucceeded(delivered, BaseOutputDirectory, bStarted)
                      ELSE RenderingFailed(delivered)
         IN  /\ SequencesToRender' = after.SequencesToRender
             /\ CurrentSequenceIndex' = after.CurrentSequenceIndex
             /\ bCurrentlyRendering' = after.bCurrentlyRendering
             /\ log' = after.log
    /\ loaded' = "no"
    /\ UNCHANGED <<SelectedSequencesFolder, SequenceRendererTargets, OutputImageResolution,
                   OutputDirectory, BaseOutputDirectory, WidgetStateAsset, discovered,
                   click, savedOptions, optionChanges>>

\* ------------------------------------------------------------------ Spec
Next ==
    \/ OnSpawnPluginTab
    \/ OnSequencesFolderChanged
    \/ OnOutputDirectoryChanged
    \/ OnExportCameraPosesChanged
    \/ OnRenderTargetsChanged
    \/ OnOutputFormatSelectionChanged
    \/ OnCustomPPMaterialSelected
    \/ OnOutputWidthChanged
    \/ OnOutputHeightChanged
    \/ OnDepthRangeChanged
    \/ OnOpticalFlowScaleChanged
    \/ OnRenderImagesClicked
    \/ OnRenderingFinished

Spec == Init /\ [][Next]_vars

\* The renderer eventually delivers OnRenderingFinished for a render it
\* started: the callback, enabled while the renderer is rendering, is not
\* postponed forever.  Nothing obliges the user to click or change an option.
FairSpec == Spec /\ WF_vars(OnRenderingFinished)

\* ================================================================ claims
IsRender(e) == e.ev = "RenderSequence"
IsFinished(e) == e.ev = "OnRenderingFinished"
IsGC(e) == e.ev = "ForceGarbageCollection"
IsDialog(e, title) == e.ev = "Dialog" /\ e.title = title

RenderCalls == SelectSeq(log, IsRender)
Finishes == SelectSeq(log, IsFinished)
Collections == SelectSeq(log, IsGC)
Shown(title) == \E k \in 1..Len(log) : IsDialog(log[k], title)
BatchIdle == SequencesToRender = <<>> /\ CurrentSequenceIndex = -1

\* Everything the renderer answered since the last click was a success.
AllSucceeded ==
    \A k \in 1..Len(log) : (IsRender(log[k]) \/ IsFinished(log[k])) => log[k].flag

\* C1: in a batch over N >= 1 discovered sequences in which every
\* RenderSequence call returned true and every OnRenderingFinished reported
\* success, the calls made so far are for the elements 0, 1, ... of the
\* discovered list in that order, one call per finished sequence plus the one
\* running, and when the batch has ended there were exactly N calls.
C1_RenderedOnceInOrder ==
    (Len(discovered) >= 1 /\ AllSucceeded) =>
        /\ Len(RenderCalls) <= Len(discovered)
        /\ \A k \in 1..Len(RenderCalls) :
              /\ RenderCalls[k].idx = k - 1
              /\ RenderCalls[k].arg = discovered[k]
        /\ IF BatchIdle
           THEN Len(RenderCalls) = Len(discovered) /\ Len(Finishes) = Len(discovered)
           ELSE Len(RenderCalls) = Len(Finishes) + 1

C1_Witness ==
    /\ Len(discovered) >= 2
    /\ AllSucceeded
    /\ BatchIdle
    /\ Len(RenderCalls) = Len(discovered)

\* C2: RenderSequence is never called while the renderer is still rendering a
\* sequence started earlier.
C2_OneAtATime ==
    \A k \in 1..Len(log) : IsRender(log[k]) => ~log[k].busy

C2_Witness ==
    /\ Len(RenderCalls) >= 2
    /\ bCurrentlyRendering
    /\ optionChanges = MaxOptionChanges

\* C3: when OnRenderingFinished(false) arrives while sequence i is rendered,
\* the "Rendering failed" dialog names sequence i, it is the last event of the
\* batch (no RenderSequence call follows, none was made for an index above i)
\* and the batch state is reset.
C3_FailureAborts ==
    \A k \in 1..Len(log) :
        (IsFinished(log[k]) /\ ~log[k].flag) =>
            /\ Len(log) = k + 1
            /\ log[k].idx = RenderCalls[Len(RenderCalls)].idx
            /\ log[k + 1] = DialogEvent("Rendering failed", discovered[log[k].idx + 1])
            /\ log[k + 1].arg # "Unknown"
            /\ \A j \in 1..Len(log) : IsRender(log[j]) => log[j].idx <= log[k].idx
            /\ BatchIdle

C3_Witness ==
    /\ Shown("Rendering failed")
    /\ Len(RenderCalls) >= 2
    /\ Len(RenderCalls) = Len(discovered)

C3_WitnessEarly ==
    /\ Shown("Rendering failed")
    /\ Len(RenderCalls) < Len(discovered)

\* C4: OnRenderingFinished(true) for the last sequence shows the "Batch
\* Rendering Complete" dialog with the number N of sequences rendered in the
\* batch and resets the batch state; the dialog is shown only after all N
\* sequences were rendered and finished successfully.
C4_CompleteReportsN ==
    /\ \A k \in 1..Len(log) :
          (IsFinished(log[k]) /\ log[k].flag /\ log[k].idx = Len(discovered) - 1) =>
              /\ Len(log) = k + 1
              /\ log[k + 1] =
                     DialogEvent("Batch Rendering Complete", ToString(Len(discovered)))
              /\ BatchIdle
    /\ Shown("Batch Rendering Complete") =>
          /\ AllSucceeded
          /\ Len(RenderCalls) = Len(discovered)
          /\ Len(Finishes) = Len(discovered)
          /\ log[Len(log)].arg = ToString(Len(RenderCalls))

C4_Witness ==
    /\ Shown("Batch Rendering Complete")
    /\ Len(discovered) >= 2

\* C5: every RenderSequence call of a batch except the first directly follows
\* one forced garbage collection, which directly follows the previous
\* sequence's OnRenderingFinished(true); the first call follows none, every
\* collection is followed by a RenderSequence call, and a fully successful
\* batch of N sequences has forced N - 1 collections.
C5_CleanupBetweenItems ==
    /\ \A k \in 1..Len(log) :
          IsRender(log[k]) =>
              IF k = 1 THEN TRUE
              ELSE /\ k >= 3
                   /\ IsGC(log[k - 1])
                   /\ IsFinished(log[k - 2]) /\ log[k - 2].flag
    /\ \A k \in 1..Len(log) :
          IsGC(log[k]) => k < Len(log) /\ IsRender(log[k + 1]) /\ k > 1
    /\ Len(RenderCalls) >= 1 => Len(Collections) = Len(RenderCalls) - 1
    /\ Shown("Batch Rendering Complete") => Len(Collections) = Len(discovered) - 1

C5_Witness ==
    /\ Shown("Batch Rendering Complete")
    /\ Len(Collections) >= 1
    /\ Len(Collections) = Len(discovered) - 1

\* C6: after a load that finds the asset, every persisted option has the
\* value it had at the last save, and SelectedSequencesFolder is empty.
C6_OptionsRoundTrip ==
    loaded # "no" =>
        /\ CurrentOptions = savedOptions
        /\ SelectedSequencesFolder = ""

\* A load overwrote options that were changed after the save, and what came
\* back is not the constructed default.
C6_Witness ==
    /\ loaded = "restored"
    /\ CurrentOptions = savedOptions
    /\ \E t \in ImageTargets : SequenceRendererTargets.SelectedTargets[t]

C6_WitnessFormat ==
    /\ loaded # "no"
    /\ SequenceRendererTargets.OutputFormats["DEPTH_IMAGE"] = "EXR"

\* C7: when RenderSequence returns false, the "Could not start rendering"
\* dialog is the next and last event of the batch (no further RenderSequence,
\* no "Batch Rendering Complete") and the batch state is reset.
C7_StartFailureAborts ==
    \A k \in 1..Len(log) :
        (IsRender(log[k]) /\ ~log[k].flag) =>
            /\ Len(log) = k + 1
            /\ log[k + 1] = DialogEvent("Could not start rendering", "")
            /\ ~Shown("Batch Rendering Complete")
            /\ BatchIdle

\* The render of a later sequence, started from OnRenderingFinished, fails.
C7_Witness ==
    /\ Shown("Could not start rendering")
    /\ Len(RenderCalls) >= 2

\* The render of the first sequence, started from the click, fails.
C7_WitnessFirst ==
    /\ Shown("Could not start rendering")
    /\ Len(log) = 2

\* The clicked folder is no content folder, or holds no LevelSequence asset.
NothingToRender ==
    /\ click.folder # ""
    /\ \/ ~TryConvertFilenameToLongPackageName(click.folder)
       \/ \A i \in 1..Len(click.assets) : click.assets[i] # "LevelSequence"

C8_NoRenderStarted ==
    NothingToRender =>
        /\ RenderCalls = <<>>
        /\ Len(log) = 1
        /\ log[1].ev = "Dialog"
        /\ log[1].title =
               IF TryConvertFilenameToLongPackageName(click.folder)
               THEN "No Sequences Found" ELSE "Invalid Folder"
        /\ BatchIdle
        /\ ~bCurrentlyRendering

\* C8: a click on a folder that is no content folder or holds no LevelSequence
\* asset calls RenderSequence for nothing, shows one error dialog, leaves the
\* batch state reset and leaves the persisted option asset as it was: no step
\* that ends with such a click as the last one changes the asset.
C8_NothingToRender ==
    /\ []C8_NoRenderStarted
    /\ [][NothingToRender' =>
              (WidgetStateAsset' = WidgetStateAsset /\ savedOptions' = savedOptions)]_vars

\* Nothing was found although options were changed since the last save.
C8_Witness ==
    /\ NothingToRender
    /\ Shown("No Sequences Found")
    /\ Len(click.assets) >= 1
    /\ WidgetStateAsset.exists
    /\ CurrentOptions # savedOptions

C8_WitnessInvalid ==
    /\ NothingToRender
    /\ Shown("Invalid Folder")

\* C9: the click is possible exactly when the folder is set, an option is
\* selected and the renderer is not rendering; while a batch is in progress
\* and its current sequence is rendering, the click is not possible.
C9_ButtonEnabled ==
    /\ ENABLED OnRenderImagesClicked <=>
          /\ SelectedSequencesFolder # ""
          /\ AnyOptionSelected(SequenceRendererTargets)
          /\ ~bCurrentlyRendering
    /\ (CurrentSequenceIndex >= 0 /\ bCurrentlyRendering) =>
          ~ENABLED OnRenderImagesClicked

C9_Witness ==
    /\ CurrentSequenceIndex >= 1
    /\ bCurrentlyRendering
    /\ SelectedSequencesFolder # ""
    /\ AnyOptionSelected(SequenceRendererTargets)

\* C10: between handlers the controller is idle (index -1, no sequences) or a
\* batch is active with 0 <= CurrentSequenceIndex < SequencesToRender.Num().
C10_IndexInRange ==
    \/ BatchIdle
    \/ /\ 0 <= CurrentSequenceIndex
       /\ CurrentSequenceIndex < Len(SequencesToRender)

C10_Witness ==
    /\ CurrentSequenceIndex >= 1
    /\ CurrentSequenceIndex = Len(SequencesToRender) - 1

C10_WitnessIdle ==
    /\ BatchIdle
    /\ Shown("Batch Rendering Complete")

\* The state in which the Render Images button can be enabled again.
Idle == BatchIdle /\ ~bCurrentlyRendering

\* C11: every batch eventually terminates: from every state, also one in
\* which a batch is in progress, the controller eventually is idle (index -1,
\* no sequences to render, renderer not rendering), provided the renderer
\* delivers its callbacks.
C11_BatchTerminates == []<>Idle

\* A batch that rendered every discovered sequence but the last without a
\* failure, and then failed, has ended.
C11_Witness ==
    /\ Idle
    /\ Len(Finishes) >= 2
    /\ ~Shown("Batch Rendering Complete")

IsAnyDialog(e) == e.ev = "Dialog"
Dialogs == SelectSeq(log, IsAnyDialog)
TerminalDialogs ==
    {"Batch Rendering Complete", "Rendering failed", "Could not start rendering"}

\* C12: a batch that made at least one RenderSequence call has shown no dialog
\* while it is in progress, and once it has ended it has shown exactly one
\* dialog, as its last event, which is "Batch Rendering Complete", "Rendering
\* failed" or "Could not start rendering".
C12_OneTerminalDialog ==
    Len(RenderCalls) >= 1 =>
        IF BatchIdle
        THEN /\ Len(Dialogs) = 1
             /\ IsAnyDialog(log[Len(log)])
             /\ log[Len(log)].title \in TerminalDialogs
        ELSE Len(Dialogs) = 0

\* A batch of two that failed on its first sequence: one dialog, no second
\* render.
C12_Witness ==
    /\ BatchIdle
    /\ Len(discovered) >= 2
    /\ Len(RenderCalls) = 1
    /\ Len(Dialogs) = 1
    /\ Shown("Rendering failed")

C12_WitnessComplete ==
    /\ BatchIdle
    /\ Len(Dialogs) = 1
    /\ Shown("Batch Rendering Complete")

C12_WitnessNotStarted ==
    /\ BatchIdle
    /\ Len(Dialogs) = 1
    /\ Len(RenderCalls) >= 1
    /\ Shown("Could not start rendering")

C12_WitnessInProgress ==
    /\ ~BatchIdle
    /\ Len(RenderCalls) >= 2
    /\ Len(Dialogs) = 0

\* The value OutputDirectory had at the click that started the batch in the
\* log: that click saved the options, and no later handler has saved since.
DirectoryAtClick == savedOptions.directory

\* Every render of the batch went to <directory at the click> / <asset name>,
\* and while the batch is in progress the sequences and the base directory
\* are those of the click.
C13_RenderedUnderBase ==
    /\ \A k \in 1..Len(log) :
          IsRender(log[k]) =>
              /\ log[k].arg = discovered[log[k].idx + 1]
              /\ log[k].dir = <<DirectoryAtClick, discovered[log[k].idx + 1]>>
    /\ CurrentSequenceIndex >= 0 =>
          /\ SequencesToRender = discovered
          /\ BaseOutputDirectory = DirectoryAtClick

\* C13: every sequence of a batch is rendered into the subfolder named after
\* it under the directory OutputDirectory was at the click, and a step that
\* changes OutputDirectory or SelectedSequencesFolder while a batch is in
\* progress changes neither the base directory nor the sequences to render
\* nor the index of the current one.
C13_BatchUnaffectedByPickers ==
    /\ []C13_RenderedUnderBase
    /\ [][(CurrentSequenceIndex >= 0 /\
            (OutputDirectory' # OutputDirectory \/
             SelectedSequencesFolder' # SelectedSequencesFolder)) =>
              UNCHANGED <<BaseOutputDirectory, SequencesToRender,
                          CurrentSequenceIndex>>]_vars

\* The second sequence is rendering and OutputDirectory was changed after the
\* click.
C13_Witness ==
    /\ CurrentSequenceIndex >= 1
    /\ Len(RenderCalls) >= 2
    /\ OutputDirectory # DirectoryAtClick
    /\ RenderCalls[2].dir[1] = DirectoryAtClick

\* The second sequence is rendering and the sequences folder was changed
\* after the click.
C13_WitnessFolder ==
    /\ CurrentSequenceIndex >= 1
    /\ Len(RenderCalls) >= 2
    /\ SelectedSequencesFolder # click.folder

====
